---- MODULE Spec2Model ----
(***************************************************************************)
(* A model of the order fulfilment engine (OrderProcessor.py), the email   *)
(* classification cache (EmailClassifier.py) and the tabular store adapter *)
(* (GoogleSheetsManager.py).                                               *)
(*                                                                         *)
(* The three external collaborators (inventory service, classifier chain,  *)
(* spreadsheet backend) are the environment: every call to one of them has *)
(* a response drawn from a small set, a raised error included.             *)
(***************************************************************************)
EXTENDS Integers, Sequences, FiniteSets, TLC

VARIABLES
    \* ---- item validation on its own (OrderProcessor._validate_order_item)
    item,             \* the call's arguments and the service's responses
    verdict,          \* what the call returned, or NoVerdict before it ran
    \* ---- OrderProcessor.process_order / bulk_process
    pc,               \* position inside process_order
    order_id,         \* argument of the running process_order call
    items,            \* argument of the running process_order call
    idx,              \* loop position in items (1-based)
    overall_status,   \* local of process_order
    processed_items,  \* local of process_order
    cur,              \* what _validate_order_item returned for items[idx]
    result,           \* what process_order returned, or the error it raised
    processed_orders, \* self.processed_orders, the ledger
    returned_log,     \* the results process_order has returned, in order
    calls_made,       \* number of process_order calls started so far
    bpc,              \* position inside bulk_process
    n_orders,         \* len(orders) of the running bulk_process call
    orders,           \* the entries of orders the loop has reached, in dict order
    bidx,             \* loop position in orders
    summary,          \* local of bulk_process, returned at the end
    \* ---- EmailClassifier
    classification_cache, \* self.classification_cache
    cpc,              \* position inside classify_batch
    emails,           \* argument of classify_batch
    batch_size,       \* argument of classify_batch (0 stands for None)
    cidx,             \* position in emails (1-based)
    results,          \* local of classify_batch, returned at the end
    chain_log,        \* per email: the chain invocations its classification made
    cpauses,          \* number of time.sleep(rate_limit_delay) calls made
    \* ---- GoogleSheetsManager, one sheet name
    schema,           \* self._schema_registry[sheet_name], or NoSchema
    sheet,            \* the adapter's handle cache and the remote worksheet
    gw_log,           \* the calls of get_worksheet made so far, in order
    apc,              \* position inside append_rows
    a_rows,           \* argument of append_rows
    a_batch_size,     \* argument of append_rows
    a_attempt,        \* the attempt of append_rows its retry decorator is at
    a_header_order,   \* local of append_rows
    a_i,              \* local of append_rows: the loop's i
    a_results,        \* local of append_rows, returned at the end
    a_error,          \* what append_rows raised, "" when it did not
    rows_before,      \* number of rows of the remote sheet at the call
    append_calls,     \* worksheet.append_rows calls made since the call
    a_pauses,         \* time.sleep(1) calls made since the call
    \* ---- GoogleSheetsManager.batch_update and update_or_create
    bu_pc,            \* position of the latest batch_update call
    bu_updates,       \* argument of batch_update
    bu_report,        \* what batch_update returned
    bu_calls,         \* worksheet.batch_update calls made, with their outcome
    upc,              \* position inside update_or_create
    u_rows,           \* argument of update_or_create
    u_k,              \* the row the loop of update_or_create is at
    u_existing,       \* local existing_ids
    u_updates,        \* local updates
    u_results,        \* local results, returned at the end
    u_error,          \* what update_or_create raised, "" when it did not
    u_log,            \* the branch taken for each row handled so far
    u_reads,          \* worksheet.get_all_records calls made
    u_appends,        \* self.append_rows calls made by update_or_create
    rows_at_call,     \* the rows of the remote sheet at the call
    \* ---- GoogleSheetsManager.find_rows
    f_pc,             \* position of the latest find_rows call
    f_conditions,     \* argument of find_rows
    f_matches,        \* what find_rows returned
    f_error           \* what find_rows raised, "" when it did not

ivars == <<item, verdict>>
pvars == <<pc, order_id, items, idx, overall_status, processed_items, cur,
           result, processed_orders, returned_log, calls_made>>
bvars == <<bpc, n_orders, orders, bidx, summary>>
cvars == <<classification_cache, cpc, emails, batch_size, cidx, results,
           chain_log, cpauses>>
svars == <<schema, sheet, gw_log, apc, a_rows, a_batch_size, a_attempt,
           a_header_order, a_i, a_results, a_error, rows_before,
           append_calls, a_pauses>>
uvars == <<bu_pc, bu_updates, bu_report, bu_calls, upc, u_rows, u_k,
           u_existing, u_updates, u_results, u_error, u_log, u_reads,
           u_appends,
           rows_at_call>>
fvars == <<f_pc, f_conditions, f_matches, f_error>>
vars == <<ivars, pvars, bvars, cvars, svars, uvars, fvars>>

\* everything outside the OrderProcessor, outside the EmailClassifier,
\* outside the GoogleSheetsManager
not_order == <<cvars, svars, uvars, fvars>>
not_classifier == <<ivars, pvars, bvars, svars, uvars, fvars>>
not_store == <<ivars, pvars, bvars, cvars, fvars>>
not_sheets == <<not_store, uvars>>

----------------------------------------------------------------------------
(* Bounds *)

MaxNegQty == 1      \* the item-level check draws quantities from -MaxNegQty
MaxQty == 5         \* up to MaxQty
MaxStock == 5       \* largest stock level the inventory service reports
MaxItems == 2       \* items per order
MaxOrders == 3      \* orders per bulk_process call
MaxCalls == 2       \* direct process_order calls in a run
MaxEmails == 3      \* emails per classify_batch call
MaxRows == 3        \* rows per append_rows call
MaxUpdates == 2     \* update blocks per batch_update call
MaxUpsert == 2      \* rows per update_or_create call

(* Program constants *)

StockAttempts == 3  \* stop_after_attempt(3) on _get_current_stock
ClassifyAttempts == 3   \* CLASSIFICATION_RETRY_ATTEMPTS, default "3"
DefaultBatchSize == 20  \* BATCH_SIZE, default "20"
WorksheetAttempts == 2  \* stop_after_attempt(2) on get_worksheet
AppendAttempts == 3     \* stop_after_attempt(3) on append_rows
DefaultAppendBatch == 100   \* append_rows(..., batch_size: int = 100)

Products == {"P1", "P2"}
OrderIds == <<"O1", "O2", "O3", "O4">>

----------------------------------------------------------------------------
(* The inventory collaborator: one response per call of                    *)
(* inventory.get_product_stock.  "int" is a stock level, "none" the        *)
(* not-found signal (None), "err" a raised exception.                      *)

Stock(n) == [kind |-> "int", val |-> n]
NotFound == [kind |-> "none", val |-> 0]
Failure == [kind |-> "err", val |-> 0]

Responses(S) == {Stock(n) : n \in S} \cup {NotFound, Failure}

\* AttemptsMade without the retry: the first attempt is the only one
AttemptsMade_once(resp, n) == 1

\* tenacity's retry loop: attempts are made in order until one does not
\* raise or n have been made; the value is the number of attempts made.
AttemptsMade(resp, n) ==
    IF \E i \in 1..n : resp[i].kind # "err"
    THEN CHOOSE i \in 1..n :
            /\ resp[i].kind # "err"
            /\ \A j \in 1..(i - 1) : resp[j].kind = "err"
    ELSE n

\* get_current_stock that reads again after a not-found answer
get_current_stock_retry_none(resp) ==
    LET n == IF \E i \in 1..StockAttempts : resp[i].kind = "int"
             THEN CHOOSE i \in 1..StockAttempts :
                     /\ resp[i].kind = "int"
                     /\ \A j \in 1..(i - 1) : resp[j].kind # "int"
             ELSE StockAttempts
    IN  [ret |-> resp[n], calls |-> n]

\* OrderProcessor._get_current_stock: the response of the last attempt made
\* (reraise=True: when every attempt raised, the last error is raised), and
\* the number of service calls.
get_current_stock(resp) ==
    LET n == AttemptsMade(resp, StockAttempts)
    IN  [ret |-> resp[n], calls |-> n]

Min(a, b) == IF a <= b THEN a ELSE b

Unread == [kind |-> "unread", val |-> 0]

\* validate_order_item with > for >= in the stock comparison
validate_order_item_strict(requested_qty, resp) ==
    IF requested_qty <= 0
    THEN [status |-> "invalid_quantity", qty |-> 0, calls |-> 0,
          read |-> Unread]
    ELSE LET r == get_current_stock(resp)
         IN  IF r.ret.kind = "err"
             THEN [status |-> "check_failed", qty |-> 0,
                   calls |-> r.calls, read |-> r.ret]
             ELSE IF r.ret.kind = "none"
             THEN [status |-> "invalid_product", qty |-> 0,
                   calls |-> r.calls, read |-> r.ret]
             ELSE [status |-> IF r.ret.val > requested_qty
                              THEN "available" ELSE "partial",
                   qty |-> Min(r.ret.val, requested_qty),
                   calls |-> r.calls, read |-> r.ret]

\* validate_order_item with < 0 for <= 0 in the quantity guard
validate_order_item_nonneg(requested_qty, resp) ==
    IF requested_qty < 0
    THEN [status |-> "invalid_quantity", qty |-> 0, calls |-> 0,
          read |-> Unread]
    ELSE LET r == get_current_stock(resp)
         IN  IF r.ret.kind = "err"
             THEN [status |-> "check_failed", qty |-> 0,
                   calls |-> r.calls, read |-> r.ret]
             ELSE IF r.ret.kind = "none"
             THEN [status |-> "invalid_product", qty |-> 0,
                   calls |-> r.calls, read |-> r.ret]
             ELSE [status |-> IF r.ret.val >= requested_qty
                              THEN "available" ELSE "partial",
                   qty |-> Min(r.ret.val, requested_qty),
                   calls |-> r.calls, read |-> r.ret]

\* OrderProcessor._validate_order_item: (status, available_qty), with the
\* number of service calls it made and what the stock read gave.
validate_order_item(requested_qty, resp) ==
    IF requested_qty <= 0
    THEN [status |-> "invalid_quantity", qty |-> 0, calls |-> 0,
          read |-> Unread]
    ELSE LET r == get_current_stock(resp)
         IN  IF r.ret.kind = "err"
             THEN [status |-> "check_failed", qty |-> 0,
                   calls |-> r.calls, read |-> r.ret]
             ELSE IF r.ret.kind = "none"
             THEN [status |-> "invalid_product", qty |-> 0,
                   calls |-> r.calls, read |-> r.ret]
             ELSE [status |-> IF r.ret.val >= requested_qty
                              THEN "available" ELSE "partial",
                   qty |-> Min(r.ret.val, requested_qty),
                   calls |-> r.calls, read |-> r.ret]

----------------------------------------------------------------------------
(* Item validation on its own: the arguments and the service's responses   *)
(* are drawn from bounded sets and the function is applied to them.        *)

NoVerdict == [status |-> "none", qty |-> 0, calls |-> 0, read |-> Unread]

ItemInputs ==
    [product_id : Products,
     requested_qty : (0 - MaxNegQty)..MaxQty,
     resp : [1..StockAttempts -> Responses(0..MaxStock)]]

IdleItem == [product_id |-> "P1", requested_qty |-> 0,
             resp |-> [i \in 1..StockAttempts |-> Failure]]

ValidateItem ==
    /\ verdict = NoVerdict
    /\ verdict' = validate_order_item(item.requested_qty, item.resp)
    /\ UNCHANGED <<item, pvars, bvars, not_order>>

----------------------------------------------------------------------------
(* OrderProcessor.process_order, one loop iteration in two steps: the      *)
(* validation of items[idx] with the status aggregation, then the report   *)
(* with its second stock read.  The inventory may answer the two reads     *)
(* differently.  The result's timestamp is left out.                       *)

OrderQtys == {0, 5}
OrderStocks == {3, 5}
\* the responses of one retried read: an attempt after the first one that
\* did not raise is never made, and its response is not drawn
OrderResponses ==
    {r \in [1..StockAttempts -> Responses(OrderStocks)] :
        \A i \in 1..StockAttempts : \A j \in (i + 1)..StockAttempts :
            r[i].kind # "err" => r[j] = Failure}

OrderItems == [product_id : Products, quantity : OrderQtys]
ItemLists == UNION {[1..n -> OrderItems] : n \in 0..MaxItems}

OrderIdSet == {OrderIds[i] : i \in 1..Len(OrderIds)}

NoResult == [order_id |-> "", status |-> "none", items |-> <<>>, error |-> ""]
Returned(oid, st, its) ==
    [order_id |-> oid, status |-> st, items |-> its, error |-> ""]
Raised(oid, err) ==
    [order_id |-> oid, status |-> "raised", items |-> <<>>, error |-> err]

\* Aggregate without the downgrade to "partial"
Aggregate_no_partial(overall, status) ==
    IF status = "invalid_product" THEN "failed" ELSE overall

\* lines 103-107: the running order status after an item of this status
Aggregate(overall, status) ==
    LET downgraded == IF status # "available" THEN "partial" ELSE overall
    IN  IF status = "invalid_product" THEN "failed" ELSE downgraded

\* Ledger that keeps the first result of an order
Ledger_first(ledger, oid, res) ==
    IF ledger[oid] = NoResult THEN [ledger EXCEPT ![oid] = res] ELSE ledger

\* line 127: self.processed_orders[order_id] = result
Ledger(ledger, oid, res) == [ledger EXCEPT ![oid] = res]

\* lines 91-92, and lines 120-128 at once when there is no item to loop over
BeginOrder(oid, its) ==
    /\ order_id' = oid
    /\ items' = its
    /\ idx' = 1
    /\ overall_status' = "fulfilled"
    /\ processed_items' = <<>>
    /\ cur' = NoVerdict
    /\ calls_made' = calls_made + 1
    /\ IF its = <<>>
       THEN /\ result' = Returned(oid, "fulfilled", <<>>)
            /\ processed_orders' =
                 Ledger(processed_orders, oid, Returned(oid, "fulfilled", <<>>))
            /\ returned_log' =
                 Append(returned_log, Returned(oid, "fulfilled", <<>>))
            /\ pc' = "returned"
       ELSE /\ result' = NoResult
            /\ pc' = "validate"
            /\ UNCHANGED <<processed_orders, returned_log>>

\* a caller other than bulk_process calls process_order, at most `limit`
\* times in a run, with an item list of `menu`
CallProcessOrder(limit, menu) ==
    /\ pc = "idle"
    /\ bpc = "idle"
    /\ calls_made < limit
    /\ \E oid \in {OrderIds[1], OrderIds[2]}, its \in menu :
          BeginOrder(oid, its)
    /\ UNCHANGED <<ivars, bvars, not_order>>

\* lines 95-107
ValidateStep ==
    /\ pc = "validate"
    /\ \E resp \in OrderResponses :
          LET v == validate_order_item(items[idx].quantity, resp)
          IN  /\ cur' = v
              /\ overall_status' = Aggregate(overall_status, v.status)
    /\ pc' = "report"
    /\ UNCHANGED <<order_id, items, idx, processed_items, result,
                   processed_orders, returned_log, calls_made, ivars,
                   bvars, not_order>>

\* lines 109-115, then the next iteration or lines 120-128
ReportStep ==
    /\ pc = "report"
    /\ \E resp \in OrderResponses :
          LET r == get_current_stock(resp)
              report == [product_id |-> items[idx].product_id,
                         requested |-> items[idx].quantity,
                         fulfilled |-> cur.qty,
                         status |-> cur.status,
                         remaining_stock |-> r.ret.val - cur.qty]
              done == Returned(order_id, overall_status,
                               Append(processed_items, report))
          IN  IF r.ret.kind = "err"
              THEN \* the stock read raised on every attempt
                   /\ pc' = "raised"
                   /\ result' = Raised(order_id, "StockError")
                   /\ UNCHANGED <<idx, processed_items, processed_orders,
                                returned_log>>
              ELSE IF r.ret.kind = "none"
              THEN \* None - available_qty
                   /\ pc' = "raised"
                   /\ result' = Raised(order_id, "TypeError")
                   /\ UNCHANGED <<idx, processed_items, processed_orders,
                                returned_log>>
              ELSE /\ processed_items' = Append(processed_items, report)
                   /\ IF idx = Len(items)
                      THEN /\ pc' = "returned"
                           /\ result' = done
                           /\ processed_orders' =
                                Ledger(processed_orders, order_id, done)
                           /\ returned_log' = Append(returned_log, done)
                           /\ UNCHANGED idx
                      ELSE /\ pc' = "validate"
                           /\ idx' = idx + 1
                           /\ UNCHANGED <<result, processed_orders,
                                        returned_log>>
    /\ UNCHANGED <<order_id, items, overall_status, cur, calls_made,
                   ivars, bvars, not_order>>

\* the direct caller has the result or the error; the call's locals die
ReturnToCaller ==
    /\ pc \in {"returned", "raised"}
    /\ bpc = "idle"
    /\ pc' = "idle"
    /\ order_id' = ""
    /\ items' = <<>>
    /\ idx' = 1
    /\ overall_status' = "fulfilled"
    /\ processed_items' = <<>>
    /\ cur' = NoVerdict
    /\ result' = NoResult
    /\ UNCHANGED <<processed_orders, returned_log, calls_made, ivars,
                   bvars, not_order>>

----------------------------------------------------------------------------
(* OrderProcessor.bulk_process.  The orders dict is a sequence of item     *)
(* lists in dict order, the i-th under the key OrderIds[i]; the loop reads  *)
(* the dict one entry at a time: its length is drawn at the call, and an   *)
(* entry when the loop reaches it.  The pacing sleeps are left out.        *)

BulkItemLists == {<<>>} \cup {<<it>> : it \in OrderItems}

NoSummary == [success_count |-> 0, failed_count |-> 0,
              processed_orders |-> <<>>, inventory_changes |-> <<>>]

ProcessingError(err) ==
    [order_id |-> "", status |-> "processing_error", items |-> <<>>,
     error |-> err]

\* dict.get(k, 0)
GetOrZero(d, k) == IF k \in DOMAIN d THEN d[k] ELSE 0

\* d[k] = v
Put(d, k, v) == [x \in DOMAIN d \cup {k} |-> IF x = k THEN v ELSE d[x]]

\* TrackChanges that keeps the last delta of a product
RECURSIVE TrackChanges_overwrite(_, _)
TrackChanges_overwrite(changes, its) ==
    IF its = <<>>
    THEN changes
    ELSE LET it == Head(its)
         IN  TrackChanges_overwrite(
                 Put(changes, it.product_id, it.requested - it.fulfilled),
                 Tail(its))

\* lines 164-169: the deltas of the reports `its` added to `changes`
RECURSIVE TrackChanges(_, _)
TrackChanges(changes, its) ==
    IF its = <<>>
    THEN changes
    ELSE LET it == Head(its)
             delta == it.requested - it.fulfilled
         IN  TrackChanges(
                 Put(changes, it.product_id,
                     GetOrZero(changes, it.product_id) + delta),
                 Tail(its))

\* lines 156-169: the summary after process_order returned `res`
RecordResult(sm, oid, res) ==
    [success_count |-> sm.success_count
                         + (IF res.status = "fulfilled" THEN 1 ELSE 0),
     failed_count |-> sm.failed_count
                         + (IF res.status = "fulfilled" THEN 0 ELSE 1),
     processed_orders |-> Put(sm.processed_orders, oid, res),
     inventory_changes |-> TrackChanges(sm.inventory_changes, res.items)]

\* RecordError without the count
RecordError_uncounted(sm, oid, err) ==
    [sm EXCEPT !.processed_orders =
                   Put(sm.processed_orders, oid, ProcessingError(err))]

\* lines 171-176: the summary after process_order raised `err`
RecordError(sm, oid, err) ==
    [sm EXCEPT !.failed_count = sm.failed_count + 1,
               !.processed_orders =
                   Put(sm.processed_orders, oid, ProcessingError(err))]

\* lines 146-151
BulkStart ==
    /\ bpc = "idle"
    /\ pc = "idle"
    /\ \E n \in 0..MaxOrders :
          /\ n_orders' = n
          /\ bpc' = IF n = 0 THEN "done" ELSE "run"
    /\ orders' = <<>>
    /\ bidx' = 1
    /\ summary' = NoSummary
    /\ UNCHANGED <<ivars, pvars, not_order>>

\* line 155: the call of process_order for the next order
BulkCall ==
    /\ bpc = "run"
    /\ pc = "idle"
    /\ \E its \in BulkItemLists :
          /\ orders' = Append(orders, its)
          /\ BeginOrder(OrderIds[bidx], its)
    /\ UNCHANGED <<ivars, bpc, n_orders, bidx, summary, not_order>>

\* lines 156-176 once process_order has returned or raised, then the next
\* order or line 182
BulkRecord ==
    /\ bpc = "run"
    /\ pc \in {"returned", "raised"}
    /\ summary' = IF pc = "returned"
                  THEN RecordResult(summary, OrderIds[bidx], result)
                  ELSE RecordError(summary, OrderIds[bidx], result.error)
    /\ bidx' = bidx + 1
    /\ bpc' = IF bidx = n_orders THEN "done" ELSE "run"
    /\ pc' = "idle"
    /\ items' = <<>>
    /\ idx' = 1
    /\ overall_status' = "fulfilled"
    /\ processed_items' = <<>>
    /\ cur' = NoVerdict
    /\ UNCHANGED <<order_id, result, processed_orders, returned_log,
                   calls_made, n_orders,
                   orders, ivars, not_order>>

----------------------------------------------------------------------------
(* EmailClassifier.  The chain (prompt, model, output parser) is the       *)
(* collaborator: an invocation raises or gives a text, of which the model  *)
(* keeps whether its lower-cased, stripped form contains "order".  Texts   *)
(* are sequences of characters; hash() is taken to be injective on them.   *)

Strs == {<<>>, <<"a">>}
BatchSizes == {0, 1, 2}

EmailBatches ==
    UNION {{[i \in 1..n |-> [id |-> i, subject |-> f[i].subject,
                             message |-> f[i].message]] :
              f \in [1..n -> [subject : Strs, message : Strs]]} :
           n \in 0..MaxEmails}

SaysOrder == [kind |-> "order", val |-> 0]
SaysOther == [kind |-> "other", val |-> 0]

\* the responses of the attempts of one _classify_single call (an attempt
\* after the first one that did not raise is never made)
ChainResponses ==
    {r \in [1..ClassifyAttempts -> {SaysOrder, SaysOther, Failure}] :
        \A i \in 1..ClassifyAttempts : \A j \in (i + 1)..ClassifyAttempts :
            r[i].kind # "err" => r[j] = Failure}

\* line 97: the cache key, hash(f"{subject}{message}")
Fingerprint(email) == email.subject \o email.message

\* lines 106-109
Normalize(r) ==
    IF r.kind = "order" THEN "order request" ELSE "product inquiry"

\* _classify_single that does not store its result in the cache
classify_single_no_store(cache, email, resp) ==
    LET key == Fingerprint(email)
    IN  IF key \in DOMAIN cache
        THEN [raised |-> FALSE, label |-> cache[key], calls |-> 0,
              hit |-> TRUE, cache |-> cache]
        ELSE LET n == AttemptsMade(resp, ClassifyAttempts)
             IN  IF resp[n].kind = "err"
                 THEN [raised |-> TRUE, label |-> "", calls |-> n,
                       hit |-> FALSE, cache |-> cache]
                 ELSE [raised |-> FALSE, label |-> Normalize(resp[n]),
                       calls |-> n, hit |-> FALSE, cache |-> cache]

\* EmailClassifier._classify_single under its retry decorator: whether it
\* raised, the label it returned, the chain invocations it made, whether
\* the cache served it, and the cache afterwards.
classify_single(cache, email, resp) ==
    LET key == Fingerprint(email)
    IN  IF key \in DOMAIN cache
        THEN [raised |-> FALSE, label |-> cache[key], calls |-> 0,
              hit |-> TRUE, cache |-> cache]
        ELSE LET n == AttemptsMade(resp, ClassifyAttempts)
             IN  IF resp[n].kind = "err"
                 THEN [raised |-> TRUE, label |-> "", calls |-> n,
                       hit |-> FALSE, cache |-> cache]
                 ELSE [raised |-> FALSE, label |-> Normalize(resp[n]),
                       calls |-> n, hit |-> FALSE,
                       cache |-> Put(cache, key, Normalize(resp[n]))]

\* batch_entry that files a failed classification as an inquiry
batch_entry_inquiry(email, out) ==
    [email_id |-> email.id,
     category |-> IF out.raised THEN "product inquiry" ELSE out.label,
     error |-> ""]

\* lines 144-155: the entry of results for an email (error "" when the
\* entry has no "error" key)
batch_entry(email, out) ==
    IF out.raised
    THEN [email_id |-> email.id, category |-> "unclassified",
          error |-> "chain error"]
    ELSE [email_id |-> email.id, category |-> out.label, error |-> ""]

\* line 135
EffectiveBatchSize(bs) == IF bs = 0 THEN DefaultBatchSize ELSE bs

\* lines 132-136
ClassifyBatch ==
    /\ cpc = "idle"
    /\ \E ems \in EmailBatches, bs \in BatchSizes :
          /\ emails' = ems
          /\ batch_size' = bs
          /\ cpc' = IF ems = <<>> THEN "done" ELSE "run"
    /\ cidx' = 1
    /\ results' = <<>>
    /\ chain_log' = <<>>
    /\ cpauses' = 0
    /\ UNCHANGED <<classification_cache, not_classifier>>

\* lines 143-155 for emails[cidx], with line 157 after the last email of a
\* batch and line 159 after the last email
ClassifyNext ==
    /\ cpc = "run"
    /\ \E resp \in ChainResponses :
          LET out == classify_single(classification_cache, emails[cidx], resp)
          IN  /\ classification_cache' = out.cache
              /\ results' = Append(results, batch_entry(emails[cidx], out))
              /\ chain_log' = Append(chain_log,
                     [calls |-> out.calls, hit |-> out.hit,
                      raised |-> out.raised])
    /\ cpauses' = IF \/ cidx % EffectiveBatchSize(batch_size) = 0
                     \/ cidx = Len(emails)
                  THEN cpauses + 1 ELSE cpauses
    /\ cidx' = cidx + 1
    /\ cpc' = IF cidx = Len(emails) THEN "done" ELSE "run"
    /\ UNCHANGED <<emails, batch_size, not_classifier>>

----------------------------------------------------------------------------
(* GoogleSheetsManager, for one sheet name.  The spreadsheet backend is    *)
(* the collaborator: each of its calls succeeds or raises.  A row is a     *)
(* dict from column names to cells; a cell is a str, an int or a list of   *)
(* str, kept as its text with its type; the remote sheet holds texts.      *)

StrCell(s) == [t |-> "str", v |-> s]
IntCell(s) == [t |-> "int", v |-> s]
ListCell(s) == [t |-> "list", v |-> s]

\* str(cell)
ToStr(cell) == cell.v

\* the order in which the rows' dicts hold their keys
KeyOrder == <<"id", "name", "headers">>

RowA == [k \in {"id", "name", "headers"} |->
            CASE k = "id" -> IntCell("1")
              [] k = "name" -> StrCell("a")
              [] k = "headers" -> ListCell("['id', 'name']")]
RowB == [k \in {"id", "name", "headers"} |->
            CASE k = "id" -> IntCell("2")
              [] k = "name" -> StrCell("b")
              [] k = "headers" -> ListCell("['id', 'name']")]
RowC == [k \in {"id", "name"} |->
            CASE k = "id" -> IntCell("3")
              [] k = "name" -> StrCell("c")]

RowMenu == {RowA, RowB, RowC}
RowLists == UNION {[1..n -> RowMenu] : n \in 0..MaxRows}
AppendBatchSizes == {1, 2, DefaultAppendBatch}

NoSchema == [name |-> "", headers |-> <<>>, id_col |-> ""]
TheSchema == [name |-> "S", headers |-> <<"id", "name">>, id_col |-> "id"]

\* SheetSchema.model_validate(row), lines 19-22: a str under "name", a list
\* of str under "headers", and a str under "id_col" when the key is there
ModelValidate(row) ==
    /\ "name" \in DOMAIN row
    /\ row["name"].t = "str"
    /\ "headers" \in DOMAIN row
    /\ row["headers"].t = "list"
    /\ "id_col" \in DOMAIN row => row["id_col"].t = "str"

\* validate_row that accepts every row
validate_row_lax(sch, row) == TRUE

\* GoogleSheetsManager.validate_row
validate_row(sch, row) == IF sch = NoSchema THEN TRUE ELSE ModelValidate(row)

\* list(row.keys())
RECURSIVE KeysIn(_, _)
KeysIn(row, order) ==
    IF order = <<>>
    THEN <<>>
    ELSE IF Head(order) \in DOMAIN row
         THEN <<Head(order)>> \o KeysIn(row, Tail(order))
         ELSE KeysIn(row, Tail(order))

\* lines 144-147
HeaderOrder(sch, rows) ==
    IF sch # NoSchema
    THEN sch.headers
    ELSE IF rows # <<>> THEN KeysIn(rows[1], KeyOrder) ELSE <<>>

\* lines 155-157: [str(row.get(col, "")) for col in header_order]
Project(row, header_order) ==
    [c \in 1..Len(header_order) |->
        IF header_order[c] \in DOMAIN row
        THEN ToStr(row[header_order[c]])
        ELSE ""]

\* BatchOf with the slice one row short
BatchOf_short(rows, i, size) ==
    SubSeq(rows, i + 1, Min(i + size - 1, Len(rows)))

\* line 150: rows[i:i + batch_size]
BatchOf(rows, i, size) == SubSeq(rows, i + 1, Min(i + size, Len(rows)))

\* lines 153-161 for one batch: the value lists of its valid rows, in order
RECURSIVE ValidatedValues(_, _, _)
ValidatedValues(sch, batch, header_order) ==
    IF batch = <<>>
    THEN <<>>
    ELSE IF validate_row(sch, Head(batch))
         THEN <<Project(Head(batch), header_order)>>
                 \o ValidatedValues(sch, Tail(batch), header_order)
         ELSE ValidatedValues(sch, Tail(batch), header_order)

\* lines 153-161 for one batch starting at i: the counts and the errors
CountBatch(res, sch, batch, i) ==
    LET valid == {k \in 1..Len(batch) : validate_row(sch, batch[k])}
        invalid == (1..Len(batch)) \ valid
    IN  [res EXCEPT !.success = res.success + Cardinality(valid),
                    !.failed = res.failed + Cardinality(invalid),
                    !.errors = res.errors
                        \o [k \in 1..Cardinality(invalid) |-> i]]

\* the handle cache (for the one sheet name) and the remote worksheet
NewSheet(exists, header) ==
    [cached |-> FALSE, exists |-> exists, header |-> header, rows |-> <<>>]

\* what the backend answers to the calls of one attempt of get_worksheet:
\* the lookup raises, or it answers and the creation raises, or the header
\* write raises, or nothing raises (a call after the one that raises is
\* not made)
AttemptResponses ==
    {[lookup |-> "err", create |-> "ok", update |-> "ok"],
     [lookup |-> "ok", create |-> "err", update |-> "ok"],
     [lookup |-> "ok", create |-> "ok", update |-> "err"],
     [lookup |-> "ok", create |-> "ok", update |-> "ok"]}

WorksheetResponses == [1..WorksheetAttempts -> AttemptResponses]

\* what one attempt of get_worksheet gives: whether it returned a handle,
\* the cache and the remote worksheet after it, and the remote calls it made
Attempted(ok, sh, lookups, creates, writes) ==
    [ok |-> ok, sheet |-> sh, attempts |-> 1, lookups |-> lookups,
     creates |-> creates, writes |-> writes]

\* lines 76-91, one attempt
GetWorksheetOnce(sh, sch, r) ==
    IF sh.cached
    THEN Attempted(TRUE, sh, 0, 0, 0)
    ELSE IF r.lookup = "err"
    THEN Attempted(FALSE, sh, 1, 0, 0)
    ELSE IF sh.exists
    THEN Attempted(TRUE, [sh EXCEPT !.cached = TRUE], 1, 0, 0)
    ELSE IF r.create = "err"
    THEN Attempted(FALSE, sh, 1, 1, 0)
    ELSE LET made == [sh EXCEPT !.exists = TRUE]
         IN  IF sch = NoSchema
             THEN Attempted(TRUE, made, 1, 1, 0)
             ELSE IF r.update = "err"
             THEN Attempted(FALSE, made, 1, 1, 1)
             ELSE Attempted(TRUE, [made EXCEPT !.header = sch.headers],
                            1, 1, 1)

\* GoogleSheetsManager.get_worksheet under its retry decorator: attempts k..
\* (the remote calls of the attempts add up)
RECURSIVE GetWorksheetFrom(_, _, _, _)
GetWorksheetFrom(sh, sch, resp, k) ==
    LET a == GetWorksheetOnce(sh, sch, resp[k])
    IN  IF a.ok \/ k = WorksheetAttempts
        THEN a
        ELSE LET rest == GetWorksheetFrom(a.sheet, sch, resp, k + 1)
             IN  [rest EXCEPT !.attempts = rest.attempts + 1,
                              !.lookups = rest.lookups + a.lookups,
                              !.creates = rest.creates + a.creates,
                              !.writes = rest.writes + a.writes]

get_worksheet(sh, sch, resp) == GetWorksheetFrom(sh, sch, resp, 1)

\* the entry of gw_log for a call of get_worksheet
Logged(g) == [ok |-> g.ok, attempts |-> g.attempts, lookups |-> g.lookups,
              creates |-> g.creates, writes |-> g.writes]

NoResults == [success |-> 0, failed |-> 0, batches |-> 0, errors |-> <<>>]

\* lines 139-147 of the attempt `attempt` of append_rows, and line 168 when
\* there is no row
EnterAppend(rows, attempt, gresp) ==
    LET g == get_worksheet(sheet, schema, gresp)
    IN  /\ sheet' = g.sheet
        /\ gw_log' = Append(gw_log, Logged(g))
        /\ a_attempt' = attempt
        /\ a_results' = NoResults
        /\ a_i' = 0
        /\ a_header_order' = HeaderOrder(schema, rows)
        /\ IF ~g.ok
           THEN apc' = "raised" /\ a_error' = "RetryError"
           ELSE /\ a_error' = ""
                /\ apc' = IF rows = <<>> THEN "returned" ELSE "batch"

\* a caller calls append_rows
AppendRows ==
    /\ apc = "idle"
    /\ \E rows \in RowLists, size \in AppendBatchSizes,
          gresp \in WorksheetResponses :
          /\ a_rows' = rows
          /\ a_batch_size' = size
          /\ EnterAppend(rows, 1, gresp)
    /\ rows_before' = Len(sheet.rows)
    /\ append_calls' = 0
    /\ a_pauses' = 0
    /\ UNCHANGED <<schema, not_sheets>>

\* lines 150-166 for the batch at a_i, then the next batch or line 168; an
\* APIError of the remote append re-runs append_rows from line 139, up to
\* AppendAttempts attempts; any other error is raised as it is
AppendBatch ==
    /\ apc = "batch"
    /\ LET batch == BatchOf(a_rows, a_i, a_batch_size)
           values == ValidatedValues(schema, batch, a_header_order)
           counted == CountBatch(a_results, schema, batch, a_i)
           next == IF a_i + a_batch_size >= Len(a_rows)
                   THEN "returned" ELSE "batch"
       IN  IF values = <<>>
           THEN /\ a_results' = counted
                /\ a_i' = a_i + a_batch_size
                /\ apc' = next
                /\ UNCHANGED <<sheet, gw_log, a_attempt, a_header_order,
                               a_error, append_calls, a_pauses>>
           ELSE \E outcome \in {"ok", "api_error", "error"} :
                  /\ append_calls' = append_calls + 1
                  /\ CASE outcome = "ok" ->
                            /\ sheet' = [sheet EXCEPT
                                           !.rows = sheet.rows \o values]
                            /\ a_results' = [counted EXCEPT
                                               !.batches = counted.batches + 1]
                            /\ a_pauses' = a_pauses + 1
                            /\ a_i' = a_i + a_batch_size
                            /\ apc' = next
                            /\ UNCHANGED <<gw_log, a_attempt, a_header_order,
                                           a_error>>
                       [] outcome = "api_error" /\ a_attempt < AppendAttempts ->
                            /\ \E gresp \in WorksheetResponses :
                                  EnterAppend(a_rows, a_attempt + 1, gresp)
                            /\ UNCHANGED a_pauses
                       [] outcome = "api_error" /\ a_attempt = AppendAttempts ->
                            /\ apc' = "raised"
                            /\ a_error' = "RetryError"
                            /\ a_results' = counted
                            /\ UNCHANGED <<sheet, gw_log, a_attempt,
                                           a_header_order, a_i, a_pauses>>
                       [] outcome = "error" ->
                            /\ apc' = "raised"
                            /\ a_error' = "Error"
                            /\ a_results' = counted
                            /\ UNCHANGED <<sheet, gw_log, a_attempt,
                                           a_header_order, a_i, a_pauses>>
    /\ UNCHANGED <<schema, a_rows, a_batch_size, rows_before, not_sheets>>

----------------------------------------------------------------------------
(* GoogleSheetsManager.batch_update.  A BatchUpdate is kept as the row its *)
(* range starts at, the number of columns of the range, and its values.    *)

BatchUpdate(row, width, values) ==
    [row |-> row, width |-> width, values |-> values]

\* the value blocks a caller passes: no row, one row, two rows of the same
\* width, two rows of different widths
ValueBlocks ==
    {<<>>,
     <<<<StrCell("x"), StrCell("y")>>>>,
     <<<<StrCell("x"), StrCell("y")>>, <<StrCell("z"), StrCell("w")>>>>,
     <<<<StrCell("x"), StrCell("y")>>, <<StrCell("z")>>>>}

UpdateMenu == {BatchUpdate(2, 2, v) : v \in ValueBlocks}
UpdateLists == UNION {[1..n -> UpdateMenu] : n \in 0..MaxUpdates}

NoReport == [updated_cells |-> 0, failed_ranges |-> <<>>]

\* [update.range for update in updates]
Ranges(updates) ==
    [k \in 1..Len(updates) |->
        [row |-> updates[k].row, width |-> updates[k].width]]

\* lines 200-203: the sum of len(values) * len(values[0])
RECURSIVE CellCount(_)
CellCount(updates) ==
    IF updates = <<>>
    THEN 0
    ELSE Len(Head(updates).values) * Len(Head(updates).values[1])
            + CellCount(Tail(updates))

\* update.values[0] raises IndexError
HasEmptyBlock(updates) == \E k \in 1..Len(updates) : updates[k].values = <<>>

\* the texts of a row of values written over a row of the sheet
Overwrite(old, new) ==
    [c \in 1..(IF Len(new) > Len(old) THEN Len(new) ELSE Len(old)) |->
        IF c <= Len(new) THEN ToStr(new[c]) ELSE old[c]]

\* the rows of the sheet after the backend has applied one update: the
\* rows of values go to the sheet's rows from update.row on (row 1 is the
\* header row); values for a row the sheet does not hold are left aside
ApplyUpdate(sh, u) ==
    LET first == IF sh.header = <<>> THEN u.row ELSE u.row - 1
    IN  [sh EXCEPT !.rows =
            [i \in 1..Len(sh.rows) |->
                IF i >= first /\ i - first + 1 <= Len(u.values)
                THEN Overwrite(sh.rows[i], u.values[i - first + 1])
                ELSE sh.rows[i]]]

RECURSIVE ApplyUpdates(_, _)
ApplyUpdates(sh, updates) ==
    IF updates = <<>>
    THEN sh
    ELSE ApplyUpdates(ApplyUpdate(sh, Head(updates)), Tail(updates))

\* lines 186-211 with these answers of the backend: the position reached,
\* the report, the remote update calls made, the cache and the sheet
batch_update(sh, sch, updates, gresp, outcome) ==
    LET g == get_worksheet(sh, sch, gresp)
        failure == [updated_cells |-> 0, failed_ranges |-> Ranges(updates)]
    IN  IF ~g.ok
        THEN [pc |-> "raised", report |-> NoReport, calls |-> <<>>,
              sheet |-> g.sheet, g |-> Logged(g)]
        ELSE IF outcome = "err"
        THEN [pc |-> "returned", report |-> failure, calls |-> <<"err">>,
              sheet |-> g.sheet, g |-> Logged(g)]
        ELSE IF HasEmptyBlock(updates)
        THEN [pc |-> "returned", report |-> failure, calls |-> <<"ok">>,
              sheet |-> ApplyUpdates(g.sheet, updates), g |-> Logged(g)]
        ELSE [pc |-> "returned",
              report |-> [updated_cells |-> CellCount(updates),
                          failed_ranges |-> <<>>],
              calls |-> <<"ok">>,
              sheet |-> ApplyUpdates(g.sheet, updates), g |-> Logged(g)]

\* the responses of the backend that a call of get_worksheet can consult
ResponsesFor(sh) ==
    IF sh.cached
    THEN {[k \in 1..WorksheetAttempts |->
              [lookup |-> "ok", create |-> "ok", update |-> "ok"]]}
    ELSE WorksheetResponses

\* a call of batch_update, by update_or_create or by another caller
DoBatchUpdate(updates) ==
    \E gresp \in ResponsesFor(sheet), outcome \in {"ok", "err"} :
       LET b == batch_update(sheet, schema, updates, gresp, outcome)
       IN  /\ bu_updates' = updates
           /\ bu_pc' = b.pc
           /\ bu_report' = b.report
           /\ bu_calls' = bu_calls \o b.calls
           /\ sheet' = b.sheet
           /\ gw_log' = Append(gw_log, b.g)

\* a caller calls batch_update
BatchUpdateCall ==
    /\ bu_pc = "idle"
    /\ upc = "idle"
    /\ \E updates \in UpdateLists : DoBatchUpdate(updates)
    /\ UNCHANGED <<schema, apc, a_rows, a_batch_size, a_attempt,
                   a_header_order, a_i, a_results, a_error, rows_before,
                   append_calls, a_pauses>>
    /\ UNCHANGED <<upc, u_rows, u_k, u_existing, u_updates, u_results,
                   u_error, u_log, u_reads, rows_at_call, u_appends,
                   not_store>>

----------------------------------------------------------------------------
(* GoogleSheetsManager.update_or_create, called with the default id_column *)

IdColumn == "id"

\* line 265
NoUpsert == [updated |-> 0, created |-> 0, errors |-> 0]

UpsertLists == UNION {[1..n -> RowMenu] : n \in 0..MaxUpsert}

\* the grid of values of the worksheet: the header row, when the sheet has
\* one, and the rows
Grid(sh) == IF sh.header = <<>> THEN sh.rows ELSE <<sh.header>> \o sh.rows

\* the texts the backend reads as numbers
NumberTexts == {"1", "2", "3"}

\* the value the backend gives for the text of a cell
Numericise(text) ==
    IF text \in NumberTexts THEN IntCell(text) ELSE StrCell(text)

\* worksheet.get_all_records(): one dict per row under the first row of the
\* grid, keyed by the texts of that first row
Records(sh) ==
    LET grid == Grid(sh)
        keys == grid[1]
        column(k) == CHOOSE c \in 1..Len(keys) :
                        /\ keys[c] = k
                        /\ \A d \in 1..Len(keys) : keys[d] = k => d <= c
    IN  IF Len(grid) < 2
        THEN <<>>
        ELSE [i \in 1..(Len(grid) - 1) |->
                [k \in {keys[c] : c \in 1..Len(keys)} |->
                    IF column(k) <= Len(grid[i + 1])
                    THEN Numericise(grid[i + 1][column(k)])
                    ELSE StrCell("")]]

\* lines 259-263: str(row[id_column]) -> idx + 2, the last row winning (the
\* records are numbered from 1 here: idx + 2 is i + 1)
ExistingIds(records) ==
    LET holders(id) == {i \in 1..Len(records) :
                          /\ IdColumn \in DOMAIN records[i]
                          /\ ToStr(records[i][IdColumn]) = id}
    IN  [id \in {ToStr(records[i][IdColumn]) :
                    i \in {j \in 1..Len(records) :
                              IdColumn \in DOMAIN records[j]}} |->
            1 + CHOOSE i \in holders(id) : \A j \in holders(id) : j <= i]

\* line 273: str(row.get(id_column))
RowId(row) ==
    IF IdColumn \in DOMAIN row THEN ToStr(row[IdColumn]) ELSE "None"

\* UpsertRoute without the validation of the row
UpsertRoute_unchecked(sch, existing, row) ==
    IF RowId(row) \in DOMAIN existing THEN "update" ELSE "append"

\* UpsertRoute that never finds the id
UpsertRoute_append(sch, existing, row) ==
    IF ~validate_row(sch, row) THEN "error" ELSE "append"

\* lines 269-285: the branch taken for a row
UpsertRoute(sch, existing, row) ==
    IF ~validate_row(sch, row)
    THEN "error"
    ELSE IF RowId(row) \in DOMAIN existing THEN "update" ELSE "append"

\* lines 277-280: the update of the existing row
RowUpdate(existing, row) ==
    LET keys == KeysIn(row, KeyOrder)
    IN  BatchUpdate(existing[RowId(row)], Len(keys),
                    <<[c \in 1..Len(keys) |-> row[keys[c]]]>>)

\* lines 258-266
UpsertStart ==
    /\ upc = "idle"
    /\ apc = "idle"
    /\ bu_pc = "idle"
    /\ \E rows \in UpsertLists, gresp \in ResponsesFor(sheet),
          read \in {"ok", "err"} :
          LET g == get_worksheet(sheet, schema, gresp)
          IN  /\ u_rows' = rows
              /\ sheet' = g.sheet
              /\ gw_log' = Append(gw_log, Logged(g))
              /\ IF ~g.ok
                 THEN /\ upc' = "raised"
                      /\ u_error' = "RetryError"
                      /\ u_reads' = 0
                      /\ u_existing' = <<>>
                 ELSE /\ u_reads' = 1
                      /\ IF read = "err"
                         THEN /\ upc' = "raised"
                              /\ u_error' = "Error"
                              /\ u_existing' = <<>>
                         ELSE /\ upc' = "rows"
                              /\ u_error' = ""
                              /\ u_existing' = ExistingIds(Records(g.sheet))
    /\ rows_at_call' = sheet.rows
    /\ u_appends' = 0
    /\ u_k' = 1
    /\ u_updates' = <<>>
    /\ u_results' = NoUpsert
    /\ u_log' = <<>>
    /\ UNCHANGED <<schema, apc, a_rows, a_batch_size, a_attempt,
                   a_header_order, a_i, a_results, a_error, rows_before,
                   append_calls, a_pauses>>
    /\ UNCHANGED <<bu_pc, bu_updates, bu_report, bu_calls, not_store>>

\* lines 268-285 for the row at u_k; an id that is not in existing_ids
\* enters append_rows for the row alone (line 284)
UpsertRow ==
    /\ upc = "rows"
    /\ u_k <= Len(u_rows)
    /\ LET row == u_rows[u_k]
           route == UpsertRoute(schema, u_existing, row)
       IN  CASE route = "error" ->
                  /\ u_results' = [u_results EXCEPT !.errors = @ + 1]
                  /\ u_log' = Append(u_log, "error")
                  /\ u_k' = u_k + 1
                  /\ UNCHANGED <<upc, u_updates, u_appends, svars>>
             [] route = "update" ->
                  /\ u_updates' = Append(u_updates, RowUpdate(u_existing, row))
                  /\ u_results' = [u_results EXCEPT !.updated = @ + 1]
                  /\ u_log' = Append(u_log, "update")
                  /\ u_k' = u_k + 1
                  /\ UNCHANGED <<upc, u_appends, svars>>
             [] route = "append" ->
                  /\ \E gresp \in ResponsesFor(sheet) :
                        EnterAppend(<<row>>, 1, gresp)
                  /\ a_rows' = <<row>>
                  /\ a_batch_size' = DefaultAppendBatch
                  /\ rows_before' = Len(sheet.rows)
                  /\ append_calls' = 0
                  /\ a_pauses' = 0
                  /\ upc' = "appending"
                  /\ u_appends' = u_appends + 1
                  /\ UNCHANGED <<schema, u_updates, u_results, u_log, u_k>>
    /\ UNCHANGED <<bu_pc, bu_updates, bu_report, bu_calls, u_rows,
                   u_existing, u_error, u_reads, rows_at_call, not_store>>

\* line 285 after append_rows has returned; what it raised goes to the
\* caller of update_or_create
UpsertResume ==
    /\ upc = "appending"
    /\ apc \in {"returned", "raised"}
    /\ apc' = "idle"
    /\ IF apc = "returned"
       THEN /\ u_results' = [u_results EXCEPT !.created = @ + 1]
            /\ u_log' = Append(u_log, "append")
            /\ u_k' = u_k + 1
            /\ upc' = "rows"
            /\ UNCHANGED u_error
       ELSE /\ upc' = "raised"
            /\ u_error' = a_error
            /\ UNCHANGED <<u_results, u_log, u_k>>
    /\ UNCHANGED <<schema, sheet, gw_log, a_rows, a_batch_size, a_attempt,
                   a_header_order, a_i, a_results, a_error, rows_before,
                   append_calls, a_pauses>>
    /\ UNCHANGED <<bu_pc, bu_updates, bu_report, bu_calls, u_rows,
                   u_existing, u_updates, u_reads, rows_at_call, u_appends,
                   not_store>>

\* lines 287-290
UpsertFinish ==
    /\ upc = "rows"
    /\ u_k > Len(u_rows)
    /\ IF u_updates # <<>>
       THEN /\ DoBatchUpdate(u_updates)
            /\ upc' = bu_pc'
            /\ u_error' = IF bu_pc' = "raised" THEN "RetryError" ELSE ""
       ELSE /\ upc' = "returned"
            /\ UNCHANGED <<u_error, sheet, gw_log, bu_pc, bu_updates,
                           bu_report, bu_calls>>
    /\ UNCHANGED <<schema, apc, a_rows, a_batch_size, a_attempt,
                   a_header_order, a_i, a_results, a_error, rows_before,
                   append_calls, a_pauses>>
    /\ UNCHANGED <<u_rows, u_k, u_existing, u_updates, u_results, u_log,
                   u_reads, rows_at_call, u_appends,
                   not_store>>

----------------------------------------------------------------------------
(* GoogleSheetsManager.find_rows *)

\* the dicts of conditions a caller passes: texts for some of the columns
ConditionMenu ==
    UNION {[cols -> {"1", "a", "b"}] : cols \in SUBSET {"id", "name"}}

\* lines 226-237.  Line 232 opens str( around record.get(k, "") == str(v)
\* and the parenthesis is not closed before the colon of line 234: the
\* statement is not Python, the function does not compile, and a call of it
\* reads nothing and returns nothing.
FindRows ==
    /\ f_pc = "idle"
    /\ \E conditions \in ConditionMenu : f_conditions' = conditions
    /\ f_pc' = "raised"
    /\ f_error' = "SyntaxError"
    /\ f_matches' = <<>>
    /\ UNCHANGED <<ivars, pvars, bvars, cvars, svars, uvars>>

----------------------------------------------------------------------------
(* Specifications *)

InitOrder ==
    /\ pc = "idle"
    /\ order_id = ""
    /\ items = <<>>
    /\ idx = 1
    /\ overall_status = "fulfilled"
    /\ processed_items = <<>>
    /\ cur = NoVerdict
    /\ result = NoResult
    /\ processed_orders = [o \in OrderIdSet |-> NoResult]
    /\ returned_log = <<>>
    /\ calls_made = 0

InitBulk ==
    /\ bpc = "idle"
    /\ n_orders = 0
    /\ orders = <<>>
    /\ bidx = 1
    /\ summary = NoSummary

InitClassifier ==
    /\ classification_cache = <<>>
    /\ cpc = "idle"
    /\ emails = <<>>
    /\ batch_size = 0
    /\ cidx = 1
    /\ results = <<>>
    /\ chain_log = <<>>
    /\ cpauses = 0

InitSheets ==
    /\ schema = NoSchema
    /\ sheet = NewSheet(FALSE, <<>>)
    /\ gw_log = <<>>
    /\ apc = "idle"
    /\ a_rows = <<>>
    /\ a_batch_size = DefaultAppendBatch
    /\ a_attempt = 1
    /\ a_header_order = <<>>
    /\ a_i = 0
    /\ a_results = NoResults
    /\ a_error = ""
    /\ rows_before = 0
    /\ append_calls = 0
    /\ a_pauses = 0

InitUpsert ==
    /\ f_pc = "idle"
    /\ f_conditions = <<>>
    /\ f_matches = <<>>
    /\ f_error = ""
    /\ bu_pc = "idle"
    /\ bu_updates = <<>>
    /\ bu_report = NoReport
    /\ bu_calls = <<>>
    /\ upc = "idle"
    /\ u_rows = <<>>
    /\ u_k = 1
    /\ u_existing = <<>>
    /\ u_updates = <<>>
    /\ u_results = NoUpsert
    /\ u_error = ""
    /\ u_log = <<>>
    /\ u_reads = 0
    /\ u_appends = 0
    /\ rows_at_call = <<>>

\* item validation on its own
InitItem ==
    /\ item \in ItemInputs
    /\ verdict = NoVerdict
    /\ InitOrder
    /\ InitBulk
    /\ InitClassifier
    /\ InitSheets
    /\ InitUpsert

NextItemSpec == ValidateItem

SpecItem == InitItem /\ [][NextItemSpec]_vars

\* process_order called directly
Init ==
    /\ item = IdleItem
    /\ verdict = NoVerdict
    /\ InitOrder
    /\ InitBulk
    /\ InitClassifier
    /\ InitSheets
    /\ InitUpsert

Next ==
    \/ CallProcessOrder(1, ItemLists)
    \/ ValidateStep
    \/ ReportStep
    \/ ReturnToCaller

Spec == Init /\ [][Next]_vars

\* process_order called several times, also for the same order_id
NextLedger ==
    \/ CallProcessOrder(MaxCalls, BulkItemLists)
    \/ ValidateStep
    \/ ReportStep
    \/ ReturnToCaller

SpecLedger == Init /\ [][NextLedger]_vars

\* bulk_process over a dict of orders
NextBulk ==
    \/ BulkStart
    \/ BulkCall
    \/ ValidateStep
    \/ ReportStep
    \/ BulkRecord

SpecBulk == Init /\ [][NextBulk]_vars

\* classify_batch over a list of emails
NextClassify ==
    \/ ClassifyBatch
    \/ ClassifyNext

SpecClassify == Init /\ [][NextClassify]_vars

\* the store adapter: a schema is registered for the sheet or not, the sheet
\* exists remotely (with its header row) or not
InitStore ==
    /\ item = IdleItem
    /\ verdict = NoVerdict
    /\ InitOrder
    /\ InitBulk
    /\ InitClassifier
    /\ InitUpsert
    /\ schema \in {NoSchema, TheSchema}
    /\ \E exists \in BOOLEAN :
          sheet = NewSheet(exists, IF exists THEN TheSchema.headers ELSE <<>>)
    /\ gw_log = <<>>
    /\ apc = "idle"
    /\ a_rows = <<>>
    /\ a_batch_size = DefaultAppendBatch
    /\ a_attempt = 1
    /\ a_header_order = <<>>
    /\ a_i = 0
    /\ a_results = NoResults
    /\ a_error = ""
    /\ rows_before = 0
    /\ append_calls = 0
    /\ a_pauses = 0

NextSheets ==
    \/ AppendRows
    \/ AppendBatch

SpecSheets == InitStore /\ [][NextSheets]_vars

\* the rows an existing sheet holds under its header row
StoredRows == {<<>>, <<<<"1", "a">>>>, <<<<"1", "a">>, <<"2", "b">>>>}

\* the store adapter over a sheet that may hold rows
InitFilled ==
    /\ item = IdleItem
    /\ verdict = NoVerdict
    /\ InitOrder
    /\ InitBulk
    /\ InitClassifier
    /\ InitUpsert
    /\ schema \in {NoSchema, TheSchema}
    /\ \E exists \in BOOLEAN, cached \in BOOLEAN, stored \in StoredRows :
          /\ cached => exists
          /\ ~exists => stored = <<>>
          /\ sheet = [cached |-> cached, exists |-> exists,
                      header |-> IF exists THEN TheSchema.headers ELSE <<>>,
                      rows |-> stored]
    /\ gw_log = <<>>
    /\ apc = "idle"
    /\ a_rows = <<>>
    /\ a_batch_size = DefaultAppendBatch
    /\ a_attempt = 1
    /\ a_header_order = <<>>
    /\ a_i = 0
    /\ a_results = NoResults
    /\ a_error = ""
    /\ rows_before = 0
    /\ append_calls = 0
    /\ a_pauses = 0

\* batch_update called directly
NextUpdate == BatchUpdateCall

SpecUpdate == InitFilled /\ [][NextUpdate]_vars

\* update_or_create called once
NextUpsert ==
    \/ UpsertStart
    \/ UpsertRow
    \/ AppendBatch
    \/ UpsertResume
    \/ UpsertFinish

SpecUpsert == InitFilled /\ [][NextUpsert]_vars

\* find_rows called once
NextFind == FindRows

SpecFind == InitFilled /\ [][NextFind]_vars

\* the items whose validation fails for good: a quantity of zero, and a
\* product the inventory reports as not found after one read that raised
PermanentItems ==
    {IdleItem,
     [product_id |-> "P1", requested_qty |-> 5,
      resp |-> <<Failure, NotFound, Failure>>]}

\* the adapter before any call, for a sheet that exists or not
FreshStore ==
    /\ schema \in {NoSchema, TheSchema}
    /\ \E exists \in BOOLEAN :
          sheet = NewSheet(exists, IF exists THEN TheSchema.headers ELSE <<>>)
    /\ gw_log = <<>>
    /\ apc = "idle"
    /\ a_rows = <<>>
    /\ a_batch_size = DefaultAppendBatch
    /\ a_attempt = 1
    /\ a_header_order = <<>>
    /\ a_i = 0
    /\ a_results = NoResults
    /\ a_error = ""
    /\ rows_before = 0
    /\ append_calls = 0
    /\ a_pauses = 0

\* the adapter after append_rows(sheet_name, []) has returned: the sheet
\* exists, its lookup answered, no schema is registered
AppendedNothing ==
    LET g == get_worksheet(NewSheet(TRUE, TheSchema.headers), NoSchema,
                           [k \in 1..WorksheetAttempts |->
                              [lookup |-> "ok", create |-> "ok",
                               update |-> "ok"]])
    IN  /\ schema = NoSchema
        /\ sheet = g.sheet
        /\ gw_log = <<Logged(g)>>
        /\ apc = "returned"
        /\ a_rows = <<>>
        /\ a_batch_size = DefaultAppendBatch
        /\ a_attempt = 1
        /\ a_header_order = <<>>
        /\ a_i = 0
        /\ a_results = NoResults
        /\ a_error = ""
        /\ rows_before = 0
        /\ append_calls = 0
        /\ a_pauses = 0

\* one validation of an item and one call of append_rows: either any item
\* is validated by a program whose append_rows call is over, or an item
\* that fails for good is validated next to a call of append_rows
InitPermanent ==
    /\ verdict = NoVerdict
    /\ InitOrder
    /\ InitBulk
    /\ InitClassifier
    /\ InitUpsert
    /\ \/ item \in ItemInputs /\ AppendedNothing
       \/ item \in PermanentItems /\ FreshStore

NextPermanent ==
    \/ ValidateItem
    \/ AppendRows
    \/ AppendBatch

SpecPermanent == InitPermanent /\ [][NextPermanent]_vars

----------------------------------------------------------------------------
(* Properties of item validation, checked under SpecItem *)

\* what the retried stock read has to give for these responses: that of the
\* first attempt that does not raise, the error when all of them raise
Answer(resp) ==
    IF \A i \in 1..StockAttempts : resp[i].kind = "err"
    THEN Failure
    ELSE resp[CHOOSE i \in 1..StockAttempts :
                 /\ resp[i].kind # "err"
                 /\ \A j \in 1..(i - 1) : resp[j].kind = "err"]

Thm_C2 ==
    (verdict # NoVerdict /\ item.requested_qty <= 0)
    => /\ verdict.status = "invalid_quantity"
       /\ verdict.qty = 0
       /\ verdict.calls = 0

Wit_C2 ==
    /\ item.requested_qty = -1
    /\ item.resp[1] = Stock(3)
    /\ verdict.status = "invalid_quantity"
    /\ verdict.calls = 0

\* C3: with requested > 0, a not-found signal gives ("invalid_product", 0),
\* a read that raises on every attempt gives ("check_failed", 0) after
\* StockAttempts calls, and the validation returns one of its four statuses
\* in every case (it never raises).
Thm_C3 ==
    (verdict # NoVerdict /\ item.requested_qty > 0)
    => /\ Answer(item.resp).kind = "none"
            => verdict.status = "invalid_product" /\ verdict.qty = 0
       /\ Answer(item.resp).kind = "err"
            => /\ verdict.status = "check_failed"
               /\ verdict.qty = 0
               /\ verdict.calls = StockAttempts
       /\ verdict.status \in
            {"available", "partial", "invalid_product", "check_failed"}

\* the read fails once, then the service says the product does not exist
Wit_C3 ==
    /\ item.requested_qty > 0
    /\ item.resp[1] = Failure
    /\ item.resp[2] = NotFound
    /\ verdict.status = "invalid_product"
    /\ verdict.calls = 2

----------------------------------------------------------------------------
(* Properties of process_order, checked under Spec *)

InvalidProductSeen ==
    \/ cur.status = "invalid_product"
    \/ \E i \in 1..Len(processed_items) :
          processed_items[i].status = "invalid_product"

\* C4: process_order on an order with an item whose product the inventory
\* does not know returns a result with order status "failed" and a report
\* ("invalid_product", fulfilled 0) for that item.  (The runs in which a
\* stock read raised on every attempt are left aside.)
CE_C4 ==
    (/\ pc \in {"returned", "raised"}
     /\ InvalidProductSeen
     /\ result.error # "StockError")
    => /\ pc = "returned"
       /\ result.status = "failed"
       /\ \E i \in 1..Len(result.items) :
             /\ result.items[i].status = "invalid_product"
             /\ result.items[i].fulfilled = 0

\* C5: once the running order status is "failed", no later item changes it.
CE_C5 ==
    [][(/\ pc \in {"validate", "report"}
        /\ overall_status = "failed"
        /\ pc' \in {"validate", "report", "returned"})
       => overall_status' = "failed"]_vars

\* C6: when every item has a positive quantity and is reported "available"
\* or "partial" (its product exists and its reads succeeded), process_order
\* returns one report per item and the status "fulfilled" if every item is
\* "available", "partial" otherwise; one item asking 5 of a product with
\* stock 3 gives "partial" with the report (requested 5, fulfilled 3,
\* "partial").
Thm_C6 ==
    (/\ pc = "returned"
     /\ \A i \in 1..Len(result.items) :
           /\ result.items[i].requested > 0
           /\ result.items[i].status \in {"available", "partial"})
    => /\ Len(result.items) = Len(items)
       /\ result.status =
            IF \A i \in 1..Len(result.items) :
                  result.items[i].status = "available"
            THEN "fulfilled" ELSE "partial"
       /\ (/\ Len(items) = 1
           /\ items[1].quantity = 5
           /\ cur.read = Stock(3))
          => /\ result.status = "partial"
             /\ result.items[1].product_id = items[1].product_id
             /\ result.items[1].requested = 5
             /\ result.items[1].fulfilled = 3
             /\ result.items[1].status = "partial"

Wit_C6 ==
    /\ pc = "returned"
    /\ items = <<[product_id |-> "P1", quantity |-> 5]>>
    /\ cur.read = Stock(3)
    /\ result.status = "partial"
    /\ result.items[1].fulfilled = 3

\* C20: process_order returns (it does not raise) a result with one report
\* per item of the order, in the order of the items, whatever the items.
CE_C20 ==
    pc \in {"returned", "raised"}
    => /\ pc = "returned"
       /\ Len(result.items) = Len(items)
       /\ \A i \in 1..Len(items) :
             /\ result.items[i].product_id = items[i].product_id
             /\ result.items[i].requested = items[i].quantity

----------------------------------------------------------------------------
(* Properties of the ledger, checked under SpecLedger *)

\* the result of the latest call for order o that returned, NoResult when
\* no call for it has returned
LastReturned(o) ==
    LET hits == {i \in 1..Len(returned_log) : returned_log[i].order_id = o}
    IN  IF hits = {}
        THEN NoResult
        ELSE returned_log[CHOOSE i \in hits : \A j \in hits : j <= i]

\* C24: after any sequence of process_order calls, the ledger holds for
\* every order_id the result of the latest call for it that returned, and
\* nothing for an order_id no call for which has returned (a call that
\* raises leaves the ledger as it is).
Thm_C24 == \A o \in OrderIdSet : processed_orders[o] = LastReturned(o)

\* the same order processed twice with different results: the ledger holds
\* the second, and nothing for the other orders
Wit_C24 ==
    /\ Len(returned_log) = 2
    /\ returned_log[1].order_id = OrderIds[1]
    /\ returned_log[2].order_id = OrderIds[1]
    /\ returned_log[1].status = "fulfilled"
    /\ returned_log[2].status = "partial"
    /\ processed_orders[OrderIds[1]] = returned_log[2]
    /\ processed_orders[OrderIds[2]] = NoResult

----------------------------------------------------------------------------
(* Properties of bulk_process, checked under SpecBulk *)

HandledIds == {OrderIds[i] : i \in 1..(bidx - 1)}

\* C7: an order whose processing raises gets a "processing_error" entry and
\* counts as one failure; success_count counts the "fulfilled" entries and
\* failed_count all others; the loop goes on, so that at the end every
\* order of the dict has its entry; with 3 orders of which only the second
\* raises and the others are fulfilled, success_count = 2 and
\* failed_count = 1.
Thm_C7 ==
    (bpc \in {"run", "done"} /\ pc = "idle")
    => LET entries == summary.processed_orders
       IN  /\ DOMAIN entries = HandledIds
           /\ bidx > 1
                => (result.status = "raised"
                      <=> entries[OrderIds[bidx - 1]].status
                            = "processing_error")
           /\ summary.success_count =
                Cardinality({o \in DOMAIN entries :
                               entries[o].status = "fulfilled"})
           /\ summary.failed_count =
                Cardinality({o \in DOMAIN entries :
                               entries[o].status # "fulfilled"})
           /\ bpc = "done" => bidx = n_orders + 1
           /\ (/\ bpc = "done"
               /\ n_orders = 3
               /\ entries[OrderIds[1]].status = "fulfilled"
               /\ entries[OrderIds[2]].status = "processing_error"
               /\ entries[OrderIds[3]].status = "fulfilled")
              => summary.success_count = 2 /\ summary.failed_count = 1

\* three orders, the second raised, the others fully available
Wit_C7 ==
    /\ bpc = "done"
    /\ n_orders = 3
    /\ DOMAIN summary.processed_orders
         = {OrderIds[1], OrderIds[2], OrderIds[3]}
    /\ summary.processed_orders[OrderIds[2]].status = "processing_error"
    /\ \A o \in {OrderIds[1], OrderIds[3]} :
          /\ summary.processed_orders[o].status = "fulfilled"
          /\ Len(summary.processed_orders[o].items) = 1
          /\ summary.processed_orders[o].items[1].status = "available"
    /\ summary.success_count = 2
    /\ summary.failed_count = 1

\* requested - fulfilled summed over the reports of product p
RECURSIVE Shortfall(_, _)
Shortfall(reports, p) ==
    IF reports = <<>>
    THEN 0
    ELSE (IF Head(reports).product_id = p
          THEN Head(reports).requested - Head(reports).fulfilled
          ELSE 0)
            + Shortfall(Tail(reports), p)

\* the same over the first n orders of the dict, an order that raised
\* counting for nothing
RECURSIVE ShortfallUpTo(_, _)
ShortfallUpTo(n, p) ==
    IF n = 0
    THEN 0
    ELSE LET entry == summary.processed_orders[OrderIds[n]]
         IN  (IF entry.status = "processing_error"
              THEN 0
              ELSE Shortfall(entry.items, p))
                + ShortfallUpTo(n - 1, p)

\* C21: when bulk_process has gone through the dict, the entry of every
\* order that did not raise has one report per item of the order, with the
\* item's product and quantity as requested; inventory_changes[p] is the
\* sum of requested - fulfilled over these reports for product p (no key
\* for a product without a report); success_count + failed_count is the
\* number of orders, success_count counting the "fulfilled" entries.
Thm_C21 ==
    bpc = "done"
    => LET entries == summary.processed_orders
           returned == {i \in 1..n_orders :
                          entries[OrderIds[i]].status # "processing_error"}
       IN  /\ \A i \in returned :
                 /\ Len(entries[OrderIds[i]].items) = Len(orders[i])
                 /\ \A k \in 1..Len(orders[i]) :
                       /\ entries[OrderIds[i]].items[k].product_id
                             = orders[i][k].product_id
                       /\ entries[OrderIds[i]].items[k].requested
                             = orders[i][k].quantity
           /\ \A p \in Products :
                 /\ GetOrZero(summary.inventory_changes, p)
                       = ShortfallUpTo(n_orders, p)
                 /\ p \in DOMAIN summary.inventory_changes
                       <=> \E i \in returned : \E k \in 1..Len(orders[i]) :
                              orders[i][k].product_id = p
           /\ summary.success_count + summary.failed_count = n_orders
           /\ summary.success_count =
                Cardinality({i \in 1..n_orders :
                               entries[OrderIds[i]].status = "fulfilled"})

\* two orders of 5 of the same product, each served 3 of them: delta 4
Wit_C21 ==
    /\ bpc = "done"
    /\ n_orders = 2
    /\ \A i \in 1..2 :
          /\ Len(orders[i]) = 1
          /\ orders[i][1].product_id = "P1"
          /\ summary.processed_orders[OrderIds[i]].status = "partial"
          /\ summary.processed_orders[OrderIds[i]].items[1].fulfilled = 3
    /\ summary.inventory_changes["P1"] = 4
    /\ summary.failed_count = 2

----------------------------------------------------------------------------
(* Properties of the EmailClassifier, checked under SpecClassify *)

SamePair(i, j) ==
    /\ emails[i].subject = emails[j].subject
    /\ emails[i].message = emails[j].message

Labels == {"order request", "product inquiry"}

CE_C26 ==
    \A j \in 1..Len(chain_log) :
        chain_log[j].hit
        => \E i \in 1..(j - 1) : SamePair(i, j) /\ ~chain_log[i].raised

----------------------------------------------------------------------------
(* Properties of the GoogleSheetsManager, checked under SpecSheets *)

AllValid == \A k \in 1..Len(a_rows) : validate_row(schema, a_rows[k])

\* ceil(n / b)
Ceil(n, b) == (n + b - 1) \div b

\* the rows the remote sheet has gained since the call
Added == SubSeq(sheet.rows, rows_before + 1, Len(sheet.rows))

AsSent == [k \in 1..Len(a_rows) |-> Project(a_rows[k], a_header_order)]

AppendedOnce ==
    /\ append_calls = Ceil(Len(a_rows), a_batch_size)
    /\ a_results.batches = Ceil(Len(a_rows), a_batch_size)
    /\ a_results.success = Len(a_rows)
    /\ a_results.failed = 0
    /\ Added = AsSent

InvalidRows == {k \in 1..Len(a_rows) :
                   schema # NoSchema /\ ~ModelValidate(a_rows[k])}

\* the batches of the input that hold at least one row that is not rejected
LiveBatches ==
    {b \in 0..Len(a_rows) :
        /\ b * a_batch_size < Len(a_rows)
        /\ \E k \in (b * a_batch_size + 1)..(b * a_batch_size + a_batch_size) :
              k <= Len(a_rows) /\ k \notin InvalidRows}

CE_C14 == apc = "returned" => Len(Added) = a_results.success

\* C17: once a call of get_worksheet has returned a handle, every later
\* call returns a handle without a remote lookup or creation.
CE_C17 ==
    \A i \in 1..Len(gw_log) : \A j \in (i + 1)..Len(gw_log) :
        gw_log[i].ok
        => /\ gw_log[j].ok
           /\ gw_log[j].lookups = 0
           /\ gw_log[j].creates = 0

\* C18: when get_worksheet has returned a handle for a sheet that the
\* adapter created and a schema is registered, the sheet has the schema's
\* header row, also when an attempt failed after the creation.
CE_C18 ==
    ( /\ gw_log # <<>>
      /\ gw_log[Len(gw_log)].ok
      /\ \E i \in 1..Len(gw_log) : gw_log[i].creates > 0
      /\ sheet.exists
      /\ schema # NoSchema )
    => sheet.header = schema.headers

\* C19: get_worksheet makes at most WorksheetAttempts attempts and
\* append_rows at most AppendAttempts, and a call whose attempts all failed
\* raises the underlying error, not a wrapper of it.
CE_C19 ==
    /\ \A i \in 1..Len(gw_log) : gw_log[i].attempts <= WorksheetAttempts
    /\ a_attempt <= AppendAttempts
    /\ apc = "raised" => a_error # "RetryError"

\* C22: a call of append_rows that returns (here: without an APIError, so
\* that every batch is gone through once) has paused once per batch the
\* rows were partitioned into, the batches without a valid row included.
CE_C22 ==
    (apc = "returned" /\ a_attempt = 1)
    => a_pauses = Ceil(Len(a_rows), a_batch_size)

----------------------------------------------------------------------------
(* Properties of batch_update, checked under SpecUpdate *)

\* the number of cells of a block of values
RECURSIVE BlockCells(_)
BlockCells(values) ==
    IF values = <<>> THEN 0 ELSE Len(Head(values)) + BlockCells(Tail(values))

RECURSIVE TotalCells(_)
TotalCells(updates) ==
    IF updates = <<>>
    THEN 0
    ELSE BlockCells(Head(updates).values) + TotalCells(Tail(updates))

\* C16: a call of batch_update that returns has made exactly one remote
\* update call; when that call failed the report has updated_cells = 0 and
\* all the requested ranges in failed_ranges; when it succeeded the report
\* has no failed range and updated_cells = the number of cells of the
\* update blocks.
CE_C16 ==
    bu_pc = "returned"
    => /\ Len(bu_calls) = 1
       /\ bu_calls[1] = "err"
          => /\ bu_report.updated_cells = 0
             /\ bu_report.failed_ranges = Ranges(bu_updates)
       /\ bu_calls[1] = "ok"
          => /\ bu_report.failed_ranges = <<>>
             /\ bu_report.updated_cells = TotalCells(bu_updates)

----------------------------------------------------------------------------
(* Properties of update_or_create, checked under SpecUpsert: the sheet has *)
(* the header row <<"id", "name">> or is created by the call               *)

\* the ids the sheet holds when update_or_create is called
IdsAtCall == {rows_at_call[i][1] : i \in 1..Len(rows_at_call)}

PassesSchema(k) == schema = NoSchema \/ ModelValidate(u_rows[k])

Routed(branch) == {k \in 1..Len(u_log) : u_log[k] = branch}

NewRows == {k \in 1..Len(u_rows) :
               PassesSchema(k) /\ RowId(u_rows[k]) \notin IdsAtCall}

CE_C27 ==
    upc = "returned"
    => IF "err" \in {bu_calls[k] : k \in 1..Len(bu_calls)}
       THEN \/ u_results.updated = 0
            \/ u_results.errors > Cardinality(Routed("error"))
       ELSE u_results.updated = Len(u_updates)

NoSharedId(rows) ==
    \A i \in 1..Len(rows) : \A j \in (i + 1)..Len(rows) :
        rows[i][1] # rows[j][1]

\* C13: when no two rows of the sheet share an id before a call of
\* update_or_create, no two rows share an id after it.
CE_C13 ==
    (upc = "returned" /\ NoSharedId(rows_at_call)) => NoSharedId(sheet.rows)

----------------------------------------------------------------------------
(* Properties of find_rows, checked under SpecFind *)

\* str(record.get(k, "")) for a record of the sheet
Shown(record, k) == IF k \in DOMAIN record THEN ToStr(record[k]) ELSE ""

\* the records of the sheet that agree with every condition, in the order
\* of the sheet
RECURSIVE Agreeing(_, _)
Agreeing(records, conditions) ==
    IF records = <<>>
    THEN <<>>
    ELSE IF \A k \in DOMAIN conditions :
               Shown(Head(records), k) = conditions[k]
         THEN <<Head(records)>> \o Agreeing(Tail(records), conditions)
         ELSE Agreeing(Tail(records), conditions)

\* C15: find_rows returns exactly the rows of the sheet in which, for every
\* key of the conditions, the text of the cell equals the text of the
\* condition's value.
CE_C15 ==
    f_pc # "idle"
    => /\ f_pc = "returned"
       /\ f_matches = Agreeing(Records(sheet), f_conditions)

----------------------------------------------------------------------------
(* Properties of the failures that are not retried, checked under          *)
(* SpecPermanent                                                           *)

\* the attempts of the stock read that raise before the first one that
\* does not
LeadingErrors(resp) ==
    Cardinality({i \in 1..StockAttempts :
                    \A j \in 1..i : resp[j].kind = "err"})

\* append_rows is not run again for rows that fail the validation: a call
\* whose rows all fail makes no remote append and stays at its first
\* attempt, and every further attempt follows a remote append
NoRerunForInvalidRows ==
    /\ (apc # "idle" /\ Cardinality(InvalidRows) = Len(a_rows))
         => a_attempt = 1 /\ append_calls = 0
    /\ a_attempt <= append_calls + 1

====
